---- MODULE Spec2Model ----
(***************************************************************************)
(* StorageClient (src/StorageClient.py): the chunk codec (split_file,      *)
(* merge_chunks) and the transfer sequences (upload_file with              *)
(* handle_uploading, download_file) over a local file system and the       *)
(* remote storage service.                                                 *)
(*                                                                         *)
(* Strings and paths are sequences of one-character strings, so that the   *)
(* f-strings, os.path.basename, str.split and glob of the source are       *)
(* computed, not assumed.  File contents are sequences of byte values.     *)
(***************************************************************************)
EXTENDS Integers, Sequences, FiniteSets, TLC

\* ------------------------------------------------------------ bounds
\* longest source file handed to split_file by the codec client, in bytes
MaxLen == 4
\* largest chunk_size argument the codec client passes
MaxChunk == 3
\* highest chunk ordinal that may be present in a staging directory at start
MaxOrd == 4
\* calls (split_file / merge_chunks) the codec client makes in one run
MaxCalls == 2
\* I/O or transport errors the environment raises in one run
MaxFaults == 1
\* upload_file / download_file calls the transfer client makes in one run
MaxOps == 2

\* upload_file's chunk size, 1024*1024*20 bytes in the source, scaled down
UploadChunkSize == 2

VARIABLES
    fs,       \* the local file system: path -> [kind, data]
    proc,     \* per caller: program counter, arguments and locals
    calls,    \* the calls each caller has completed: <<[op, args.., ret]>>
    faults,   \* number of I/O / transport errors raised so far
    nextId,   \* service: next fileId it assigns
    files,    \* service: registered FileRecords, <<[fileId, name]>>
    posts     \* service: chunk upload requests received, in order

vars == <<fs, proc, calls, faults, nextId, files, posts>>

\* ------------------------------------------------------------ strings

DigitChar(d) == <<"0", "1", "2", "3", "4", "5", "6", "7", "8", "9">>[d + 1]

\* str(n) for a non-negative integer
RECURSIVE Str(_)
Str(n) == IF n < 10 THEN <<DigitChar(n)>>
          ELSE Str(n \div 10) \o <<DigitChar(n % 10)>>

BinExt == <<".", "b", "i", "n">>

\* position of the last "/" of a path, 0 when it has none
RECURSIVE LastSlash(_, _)
LastSlash(path, i) ==
    IF i = 0 THEN 0
    ELSE IF path[i] = "/" THEN i ELSE LastSlash(path, i - 1)

\* os.path.basename
Basename(path) ==
    SubSeq(path, LastSlash(path, Len(path)) + 1, Len(path))

\* the directory a path lies in; <<>> is the working directory, <<"/">> the root
Dirname(path) ==
    LET k == LastSlash(path, Len(path))
    IN  IF k = 0 THEN <<>> ELSE IF k = 1 THEN <<"/">> ELSE SubSeq(path, 1, k - 1)

\* position of the first "." of a string, Len + 1 when it has none
RECURSIVE FirstDot(_, _)
FirstDot(s, i) ==
    IF i > Len(s) THEN i
    ELSE IF s[i] = "." THEN i ELSE FirstDot(s, i + 1)

\* file_name.split(".")[0]
Stem(s) == SubSeq(s, 1, FirstDot(s, 1) - 1)

\* f"{directory}/{file_name}_{chunk_number}.bin"
ChunkFilename(dir, name, n) ==
    dir \o <<"/">> \o name \o <<"_">> \o Str(n) \o BinExt

\* os.path.join(directory, name)
PathJoin(dir, name) ==
    IF dir = <<>> THEN name ELSE dir \o <<"/">> \o name

\* ------------------------------------------------------------ values

None == [t |-> "None", v |-> <<>>]
StrVal(s) == [t |-> "str", v |-> s]
\* str(e) of the OSError raised on `path`
ErrStr(path) == <<"[Errno] '">> \o path \o <<"'">>

\* ------------------------------------------------------------ file system

File(d) == [kind |-> "file", data |-> d]
Dir == [kind |-> "dir", data |-> <<>>]

Exists(f, p) == p \in DOMAIN f
IsDir(f, p) == p = <<>> \/ (Exists(f, p) /\ f[p].kind = "dir")
IsFile(f, p) == Exists(f, p) /\ f[p].kind = "file"
\* Path.exists(Path(p)): Path("") is the working directory
PathExists(f, p) == p = <<>> \/ Exists(f, p)
\* open(p, 'wb') succeeds: the parent is a directory and p is not one
CanWrite(f, p) == IsDir(f, Dirname(p)) /\ ~IsDir(f, p)
WriteFile(f, p, d) == (p :> File(d)) @@ f
MakeDirs(f, p) == (p :> Dir) @@ f

\* file.read(size) at offset pos of a file holding `data`
\* (faulty variant: reads one byte less than asked)
ReadBlockShort(data, pos, size) ==
    SubSeq(data, pos + 1, IF pos + size - 1 < Len(data) THEN pos + size - 1 ELSE Len(data))
ReadBlock(data, pos, size) ==
    SubSeq(data, pos + 1, IF pos + size < Len(data) THEN pos + size ELSE Len(data))

\* ------------------------------------------------------------ callers

\* A caller's frame.  The names are the source's; split_file, merge_chunks,
\* upload_file and download_file share a frame because at most one of each
\* is active per caller and their common names always hold the same value.
Blank == [
    pc |-> "idle",
    caller |-> "client",         \* who called split_file / merge_chunks
    input_file_path |-> <<>>,    \* split_file / upload_file: the local path
    chunk_size |-> 0,
    output_directory |-> <<>>,   \* split_file's, download_file's
    chunks_directory |-> <<>>,   \* merge_chunks'
    file_name |-> <<>>,
    pos |-> 0,                   \* read offset of the open input file
    data |-> <<>>,
    chunk_number |-> 0,
    file_db_id |-> 0,            \* 0: None
    chunks_list |-> <<>>,        \* upload: glob's list; download: chunksIds
    ret |-> None,                \* what split_file / merge_chunks returned
    err |-> "" ]                 \* the exception raised in this call, if any

Procs == DOMAIN proc

\* one completed call, as the caller saw it
Call(op, f, ret) ==
    [op |-> op, input_file_path |-> f.input_file_path, chunk_size |-> f.chunk_size,
     directory |-> IF op = "merge_chunks" THEN f.chunks_directory ELSE f.output_directory,
     file_name |-> f.file_name, file_db_id |-> f.file_db_id,
     chunks |-> f.chunks_list, ret |-> ret, err |-> f.err]

\* the environment may raise one more I/O or transport error
MayFault == faults < MaxFaults

\* ------------------------------------------------------------ split_file

\* where split_file / merge_chunks return to
ReturnPc(f) ==
    CASE f.caller = "client" -> "idle"
      [] f.caller = "upload" -> "upload_glob"
      [] f.caller = "download" -> "download_ret"

\* `return v` out of split_file or merge_chunks
Return(p, f, op, v) ==
    /\ proc' = [proc EXCEPT ![p] =
          IF f.caller = "client"
          THEN [Blank EXCEPT !.ret = v]
          ELSE [f EXCEPT !.pc = ReturnPc(f), !.ret = v, !.pos = 0,
                         !.data = <<>>, !.chunk_number = 0]]
    /\ calls' = IF f.caller = "client"
                THEN [calls EXCEPT ![p] = Append(@, Call(op, f, v))]
                ELSE calls

\* chunk_number += 1
\* (faulty variant: skips an ordinal)
NextChunkSkips(n) == n + 2
NextChunk(n) == n + 1

\* line 106: open(input_file_path, 'rb'); any exception returns None
SplitOpen(p) ==
    /\ proc[p].pc = "split_open"
    /\ LET f == proc[p] IN
       \/ /\ IsFile(fs, f.input_file_path)
          /\ proc' = [proc EXCEPT ![p].pc = "split_mkdir"]
          /\ UNCHANGED <<calls, faults>>
       \/ /\ ~IsFile(fs, f.input_file_path)
          /\ Return(p, [f EXCEPT !.err = "open"], "split_file", None)
          /\ UNCHANGED faults
       \/ /\ IsFile(fs, f.input_file_path)
          /\ MayFault
          /\ faults' = faults + 1
          /\ Return(p, [f EXCEPT !.err = "open"], "split_file", None)
    /\ UNCHANGED <<fs, nextId, files, posts>>

\* lines 107-111: create the output directory, read the first block
SplitMkdir(p) ==
    /\ proc[p].pc = "split_mkdir"
    /\ LET f == proc[p] IN
       /\ fs' = IF PathExists(fs, f.output_directory) THEN fs
                ELSE MakeDirs(fs, f.output_directory)
       /\ proc' = [proc EXCEPT ![p] =
             [f EXCEPT !.pc = "split_loop",
                       !.file_name = Basename(f.input_file_path),
                       !.data = ReadBlock(fs[f.input_file_path].data, 0, f.chunk_size),
                       !.pos = Len(ReadBlock(fs[f.input_file_path].data, 0, f.chunk_size)),
                       !.chunk_number = 1]]
    /\ UNCHANGED <<calls, faults, nextId, files, posts>>

\* lines 113-119: one iteration of `while data`
SplitWrite(p) ==
    /\ proc[p].pc = "split_loop"
    /\ proc[p].data # <<>>
    /\ LET f == proc[p]
           chunk_filename == ChunkFilename(f.output_directory, f.file_name, f.chunk_number)
           next == ReadBlock(fs[f.input_file_path].data, f.pos, f.chunk_size)
       IN
       \/ /\ CanWrite(fs, chunk_filename)
          /\ fs' = WriteFile(fs, chunk_filename, f.data)
          /\ proc' = [proc EXCEPT ![p] =
                [f EXCEPT !.chunk_number = NextChunk(f.chunk_number),
                          !.data = next, !.pos = f.pos + Len(next)]]
          /\ UNCHANGED <<calls, faults>>
       \/ /\ ~CanWrite(fs, chunk_filename)
          /\ Return(p, [f EXCEPT !.err = "write"], "split_file", None)
          /\ UNCHANGED <<fs, faults>>
       \/ \* the write fails (disk full): the chunk file is left empty
          /\ CanWrite(fs, chunk_filename)
          /\ MayFault
          /\ faults' = faults + 1
          /\ fs' = WriteFile(fs, chunk_filename, <<>>)
          /\ Return(p, [f EXCEPT !.err = "write"], "split_file", None)
    /\ UNCHANGED <<nextId, files, posts>>

\* line 120: the read returned nothing; return output_directory
SplitReturn(p) ==
    /\ proc[p].pc = "split_loop"
    /\ proc[p].data = <<>>
    /\ Return(p, proc[p], "split_file", StrVal(proc[p].output_directory))
    /\ UNCHANGED <<fs, faults, nextId, files, posts>>

\* ------------------------------------------------------------ merge_chunks

\* line 138: os.path.exists(chunk_filename)
ChunkExists(f, path) == Exists(f, path)

\* line 141: output_file.write(data) appends to what was written so far
\* (faulty variant: each write replaces what was written)
WriteOverwrites(written, data) == data
OutputWrite(written, data) == written \o data

\* lines 135-137: open(file_name, 'wb'); any exception returns str(e)
MergeOpen(p) ==
    /\ proc[p].pc = "merge_open"
    /\ LET f == proc[p] IN
       \/ /\ CanWrite(fs, f.file_name)
          /\ fs' = WriteFile(fs, f.file_name, <<>>)
          /\ proc' = [proc EXCEPT ![p] = [f EXCEPT !.pc = "merge_loop", !.chunk_number = 1]]
          /\ UNCHANGED <<calls, faults>>
       \/ /\ ~CanWrite(fs, f.file_name)
          /\ Return(p, [f EXCEPT !.err = "open"], "merge_chunks", StrVal(ErrStr(f.file_name)))
          /\ UNCHANGED <<fs, faults>>
       \/ /\ CanWrite(fs, f.file_name)
          /\ MayFault
          /\ faults' = faults + 1
          /\ Return(p, [f EXCEPT !.err = "open"], "merge_chunks", StrVal(ErrStr(f.file_name)))
          /\ UNCHANGED fs
    /\ UNCHANGED <<nextId, files, posts>>

\* lines 138-144: one iteration of `while os.path.exists(chunk_filename)`
MergeAppend(p) ==
    /\ proc[p].pc = "merge_loop"
    /\ LET f == proc[p]
           chunk_filename == ChunkFilename(f.chunks_directory, f.file_name, f.chunk_number)
       IN
       /\ ChunkExists(fs, chunk_filename)
       /\ \/ /\ IsFile(fs, chunk_filename)
             /\ fs' = WriteFile(fs, f.file_name,
                                   OutputWrite(fs[f.file_name].data, fs[chunk_filename].data))
             /\ proc' = [proc EXCEPT ![p].chunk_number = NextChunk(f.chunk_number)]
             /\ UNCHANGED <<calls, faults>>
          \/ \* the chunk cannot be read
             /\ MayFault \/ ~IsFile(fs, chunk_filename)
             /\ faults' = IF IsFile(fs, chunk_filename) THEN faults + 1 ELSE faults
             /\ Return(p, [f EXCEPT !.err = "read"], "merge_chunks", StrVal(ErrStr(chunk_filename)))
             /\ UNCHANGED fs
    /\ UNCHANGED <<nextId, files, posts>>

\* line 145: the next chunk does not exist; return file_name
MergeReturn(p) ==
    /\ proc[p].pc = "merge_loop"
    /\ LET f == proc[p]
           chunk_filename == ChunkFilename(f.chunks_directory, f.file_name, f.chunk_number)
       IN
       /\ ~ChunkExists(fs, chunk_filename)
       /\ Return(p, f, "merge_chunks", StrVal(f.file_name))
    /\ UNCHANGED <<fs, faults, nextId, files, posts>>

\* ------------------------------------------------------------ codec client
\* A caller of the codec alone: split_file and merge_chunks on local files.

SrcDir == <<"s">>
NameA == <<"a", ".", "t">>
SrcPath == PathJoin(SrcDir, NameA)
MissingPath == PathJoin(SrcDir, <<"z">>)
\* output directories the codec client uses; NameA is the output file's path
CodecDirs == {<<"d">>, NameA}
StageDir == <<"g">>

\* a file of n bytes, each byte distinct: tag*16 + its position
Bytes(tag, n) == [i \in 1..n |-> tag * 16 + i]

\* split_file(path, size, dir)
CallSplit(p, path, size, dir) ==
    /\ proc[p].pc = "idle"
    /\ Len(calls[p]) < MaxCalls
    /\ proc' = [proc EXCEPT ![p] =
          [Blank EXCEPT !.pc = "split_open", !.input_file_path = path,
                        !.chunk_size = size, !.output_directory = dir]]
    /\ UNCHANGED <<fs, calls, faults, nextId, files, posts>>

\* merge_chunks(dir, name)
CallMerge(p, dir, name) ==
    /\ proc[p].pc = "idle"
    /\ Len(calls[p]) < MaxCalls
    /\ proc' = [proc EXCEPT ![p] =
          [Blank EXCEPT !.pc = "merge_open", !.chunks_directory = dir,
                        !.file_name = name]]
    /\ UNCHANGED <<fs, calls, faults, nextId, files, posts>>

ServiceInit ==
    /\ nextId = 1
    /\ files = <<>>
    /\ posts = <<>>

\* split then merge: a source file of 0..MaxLen bytes, nothing else on disk
InitCodec ==
    /\ \E n \in 0..MaxLen :
          fs = (SrcDir :> Dir) @@ (SrcPath :> File(Bytes(0, n)))
    /\ proc = [p \in {"c"} |-> Blank]
    /\ calls = [p \in {"c"} |-> <<>>]
    /\ faults = 0
    /\ ServiceInit

NextCodec ==
    \/ \E p \in Procs, path \in {SrcPath, MissingPath}, size \in 1..MaxChunk,
          dir \in CodecDirs : CallSplit(p, path, size, dir)
    \/ \E p \in Procs, dir \in CodecDirs : CallMerge(p, dir, NameA)
    \/ \E p \in Procs : SplitOpen(p)
    \/ \E p \in Procs : SplitMkdir(p)
    \/ \E p \in Procs : SplitWrite(p)
    \/ \E p \in Procs : SplitReturn(p)
    \/ \E p \in Procs : MergeOpen(p)
    \/ \E p \in Procs : MergeAppend(p)
    \/ \E p \in Procs : MergeReturn(p)

SpecCodec == InitCodec /\ [][NextCodec]_vars

\* merge alone: a staging directory holding any set of ordinals 1..MaxOrd
InitMerge ==
    /\ \E S \in SUBSET (1..MaxOrd) :
          fs = (StageDir :> Dir) @@
               [q \in {ChunkFilename(StageDir, NameA, i) : i \in S} |->
                   File(<<CHOOSE i \in S : q = ChunkFilename(StageDir, NameA, i)>>)]
    /\ proc = [p \in {"c"} |-> Blank]
    /\ calls = [p \in {"c"} |-> <<>>]
    /\ faults = 0
    /\ ServiceInit

NextMerge ==
    \/ \E p \in Procs, name \in {NameA, <<"b">>} : CallMerge(p, StageDir, name)
    \/ \E p \in Procs : MergeOpen(p)
    \/ \E p \in Procs : MergeAppend(p)
    \/ \E p \in Procs : MergeReturn(p)

\* the caller runs to completion: every enabled step is eventually taken
SpecMerge == InitMerge /\ [][NextMerge]_vars /\ WF_vars(NextMerge)

\* ------------------------------------------------------------ codec claims

Ceil(n, c) == (n + c - 1) \div c

\* the files directly inside directory dir
Listing(f, dir) == {q \in DOMAIN f : Dirname(q) = dir /\ q # dir}

\* the bytes of chunks 1..m of `name` in `dir`, in ordinal order
RECURSIVE ConcatChunks(_, _, _, _)
ConcatChunks(f, dir, name, m) ==
    IF m = 0 THEN <<>>
    ELSE ConcatChunks(f, dir, name, m - 1) \o f[ChunkFilename(dir, name, m)].data

\* the ordinals of `name` present in `dir`, and the longest prefix 1..m of them
Ordinals(f, dir, name) ==
    {i \in 1..(MaxOrd + MaxLen + 2) : Exists(f, ChunkFilename(dir, name, i))}
PrefixLen(S) == CHOOSE m \in 0..Cardinality(S) :
                    (1..m) \subseteq S /\ (m + 1) \notin S

\* call i of caller p is a split_file that returned its directory, and is the
\* only split_file the caller made into that directory (which held nothing before)
SplitOk(p, i) ==
    /\ calls[p][i].op = "split_file"
    /\ calls[p][i].ret = StrVal(calls[p][i].directory)
    /\ \A j \in 1..Len(calls[p]) :
          (j # i /\ calls[p][j].op = "split_file")
             => calls[p][j].directory # calls[p][i].directory

\* the caller has just returned from call i, a merge_chunks that returned file_name
MergeOk(p, i) ==
    /\ proc[p].pc = "idle"
    /\ Len(calls[p]) = i
    /\ calls[p][i].op = "merge_chunks"
    /\ calls[p][i].ret = StrVal(calls[p][i].file_name)

C2_Contiguity ==
    \A p \in Procs : \A i \in 1..Len(calls[p]) :
        (proc[p].pc = "idle" /\ SplitOk(p, i)) =>
            LET c == calls[p][i]
                N == Len(fs[c.input_file_path].data)
                C == c.chunk_size
                k == Ceil(N, C)
            IN  /\ Listing(fs, c.directory) =
                      {ChunkFilename(c.directory, Basename(c.input_file_path), j) : j \in 1..k}
                /\ \A j \in 1..k :
                      Len(fs[ChunkFilename(c.directory, Basename(c.input_file_path), j)].data)
                         = IF j < k \/ N % C = 0 THEN C ELSE N % C

\* a 3-byte source split with chunk size 2: chunks of 2 and 1 bytes
C2_Witness ==
    /\ Len(calls["c"]) >= 1
    /\ proc["c"].pc = "idle"
    /\ SplitOk("c", 1)
    /\ calls["c"][1].chunk_size = 2
    /\ Len(fs[SrcPath].data) = 3
    /\ Len(fs[ChunkFilename(calls["c"][1].directory, NameA, 2)].data) = 1

\* P1: a merge_chunks that returned file_name wrote chunks 1..m, m the largest
\* number with 1..m all present; while it loops it never looks past m + 1
C3_StopsAtFirstMissing ==
    \A p \in Procs :
        /\ proc[p].pc = "merge_loop" =>
              proc[p].chunk_number <=
                  PrefixLen(Ordinals(fs, proc[p].chunks_directory, proc[p].file_name)) + 1
        /\ (Len(calls[p]) > 0 /\ MergeOk(p, Len(calls[p]))) =>
              LET c == calls[p][Len(calls[p])] IN
              fs[c.file_name].data =
                  ConcatChunks(fs, c.directory, c.file_name,
                               PrefixLen(Ordinals(fs, c.directory, c.file_name)))

\* C3 (merge termination): merge_chunks appends chunks 1, 2, ... in order and
\* stops at the first missing ordinal, so its output is chunks 1..m for m the
\* longest prefix of ordinals present, and every merge_chunks call returns.
C3_MergeTermination ==
    /\ [] C3_StopsAtFirstMissing
    /\ (proc["c"].pc \in {"merge_open", "merge_loop"}) ~> (proc["c"].pc = "idle")

\* ordinals {1, 2, 4} staged: the merge returned chunks 1 and 2 only
C3_Witness ==
    /\ Ordinals(fs, StageDir, NameA) = {1, 2, 4}
    /\ Len(calls["c"]) = 1
    /\ MergeOk("c", 1)
    /\ calls["c"][1].file_name = NameA
    /\ fs[NameA].data = <<1, 2>>

\* ------------------------------------------------------------ the service
\* The remote service as the client sees it: POST /file registers a
\* FileRecord, POST / stores one chunk under a fileId, GET /file returns a
\* record's chunks, GET /download returns one chunk's bytes.

\* the chunks the service holds for fileId id, in the order it received them
RECURSIVE ChunksOf(_, _, _)
ChunksOf(ps, id, i) ==
    IF i > Len(ps) THEN <<>>
    ELSE (IF ps[i].fileId = id /\ ps[i].ok
          THEN <<[chunkId |-> i, chunkName |-> ps[i].name]>> ELSE <<>>)
         \o ChunksOf(ps, id, i + 1)

\* the body of an HTTP error response
ErrorBody == <<255>>

\* all orders of a finite set
Perms(S) == {q \in [1..Cardinality(S) -> S] : \A i, j \in DOMAIN q : i # j => q[i] # q[j]}

\* glob.glob(f"{dir}/*"): the entries of dir whose name does not start with "."
Glob(f, dir) ==
    {q \in DOMAIN f : Dirname(q) = dir /\ q # dir /\ Basename(q)[1] # "."}

\* `return v` / `raise` out of upload_file or download_file
Finish(p, f, op, v) ==
    /\ proc' = [proc EXCEPT ![p] = [Blank EXCEPT !.ret = v]]
    /\ calls' = [calls EXCEPT ![p] = Append(@, Call(op, f, v))]

DictVal(id) == [t |-> "dict", v |-> <<id>>]
Raised == [t |-> "exception", v |-> <<>>]

\* ------------------------------------------------------------ upload_file

\* upload_file(path); each caller makes at most `budget` transfers
CallUpload(p, path, budget) ==
    /\ proc[p].pc = "idle"
    /\ Len(calls[p]) < budget
    /\ proc' = [proc EXCEPT ![p] =
          [Blank EXCEPT !.pc = "upload_stat", !.caller = "upload",
                        !.input_file_path = path]]
    /\ UNCHANGED <<fs, calls, faults, nextId, files, posts>>

\* lines 176-178: os.path.getsize raises when the path does not exist
UploadStat(p) ==
    /\ proc[p].pc = "upload_stat"
    /\ LET f == proc[p] IN
       IF Exists(fs, f.input_file_path)
       THEN /\ proc' = [proc EXCEPT ![p] =
                  [f EXCEPT !.pc = "upload_add",
                            !.file_name = Basename(f.input_file_path)]]
            /\ UNCHANGED calls
       ELSE Finish(p, [f EXCEPT !.err = "getsize"], "upload_file", Raised)
    /\ UNCHANGED <<fs, faults, nextId, files, posts>>

\* lines 180-182: add_file; the service assigns a fileId, or answers without one
UploadAddFile(p) ==
    /\ proc[p].pc = "upload_add"
    /\ LET f == proc[p] IN
       \/ /\ nextId' = nextId + 1
          /\ files' = Append(files, [fileId |-> nextId, name |-> f.file_name])
          /\ proc' = [proc EXCEPT ![p] =
                [f EXCEPT !.pc = "upload_check", !.file_db_id = nextId]]
          /\ UNCHANGED <<calls, faults>>
       \/ /\ proc' = [proc EXCEPT ![p] =
                [f EXCEPT !.pc = "upload_check", !.file_db_id = 0]]
          /\ UNCHANGED <<calls, faults, nextId, files>>
       \/ /\ MayFault
          /\ faults' = faults + 1
          /\ Finish(p, [f EXCEPT !.err = "add_file"], "upload_file", Raised)
          /\ UNCHANGED <<nextId, files>>
    /\ UNCHANGED <<fs, posts>>

\* line 183: `file_db_id is None`
\* (faulty variant: the missing id goes unnoticed)
NoFileIdNever(id) == FALSE
NoFileId(id) == id = 0

\* lines 183-188: without a fileId return None, else call split_file
UploadCheckId(p) ==
    /\ proc[p].pc = "upload_check"
    /\ LET f == proc[p] IN
       IF NoFileId(f.file_db_id)
       THEN Finish(p, [f EXCEPT !.err = "no_id"], "upload_file", None)
       ELSE /\ proc' = [proc EXCEPT ![p] =
                  [f EXCEPT !.pc = "split_open", !.chunk_size = UploadChunkSize,
                            !.output_directory = Str(f.file_db_id)]]
            /\ UNCHANGED calls
    /\ UNCHANGED <<fs, faults, nextId, files, posts>>

\* line 190: `chuncks_directory is None`
\* (faulty variant: the failed split goes unnoticed)
SplitFailedNever(v) == FALSE
SplitFailed(v) == v = None

\* lines 190-204: without a directory return None, else list the chunk files
UploadGlob(p) ==
    /\ proc[p].pc = "upload_glob"
    /\ LET f == proc[p] IN
       IF SplitFailed(f.ret)
       THEN Finish(p, [f EXCEPT !.err = "split"], "upload_file", None)
       ELSE /\ \E order \in Perms(Glob(fs, f.ret.v)) :
                 proc' = [proc EXCEPT ![p] =
                    [f EXCEPT !.pc = "upload_post", !.chunks_list = order]]
            /\ UNCHANGED calls
    /\ UNCHANGED <<fs, faults, nextId, files, posts>>

\* the request for one chunk, as the service logs it
Post(f, chunk, ok) ==
    [fileId |-> f.file_db_id, chunk |-> chunk, name |-> Basename(chunk),
     data |-> fs[chunk].data, ok |-> ok]

\* lines 214, 198-200: what upload_file returns when a chunk upload raised
\* (faulty variant: the loop goes on to the next chunk)
AfterRaiseSkip(p, f) ==
    /\ proc' = [proc EXCEPT ![p] = [f EXCEPT !.chunks_list = Tail(f.chunks_list)]]
    /\ calls' = calls
AfterRaise(p, f) ==
    Finish(p, f, "upload_file", None)

\* lines 206-212: upload the next chunk of chunks_list
UploadPost(p) ==
    /\ proc[p].pc = "upload_post"
    /\ proc[p].chunks_list # <<>>
    /\ LET f == proc[p]
           chunk == Head(f.chunks_list)
       IN
       \/ /\ posts' = Append(posts, Post(f, chunk, TRUE))
          /\ proc' = [proc EXCEPT ![p].chunks_list = Tail(f.chunks_list)]
          /\ UNCHANGED <<calls, faults>>
       \/ \* requests.post raises: the request was issued and failed
          /\ MayFault
          /\ faults' = faults + 1
          /\ posts' = Append(posts, Post(f, chunk, FALSE))
          /\ AfterRaise(p, [f EXCEPT !.err = "post"])
       \/ \* open(chunk, 'rb') raises: no request is issued
          /\ MayFault
          /\ faults' = faults + 1
          /\ posts' = posts
          /\ AfterRaise(p, [f EXCEPT !.err = "open_chunk"])
    /\ UNCHANGED <<fs, nextId, files>>

\* lines 213, 195-197: every chunk was sent; return file_data
UploadDone(p) ==
    /\ proc[p].pc = "upload_post"
    /\ proc[p].chunks_list = <<>>
    /\ Finish(p, proc[p], "upload_file", DictVal(proc[p].file_db_id))
    /\ UNCHANGED <<fs, faults, nextId, files, posts>>

\* ------------------------------------------------------------ download_file

\* download_file(name)
CallDownload(p, name, budget) ==
    /\ proc[p].pc = "idle"
    /\ Len(calls[p]) < budget
    /\ proc' = [proc EXCEPT ![p] =
          [Blank EXCEPT !.pc = "download_get", !.caller = "download",
                        !.file_name = name]]
    /\ UNCHANGED <<fs, calls, faults, nextId, files, posts>>

\* lines 224-227: get_file_data, then make the staging directory.  The service
\* answers with one of its records of that name, or with no chunksIds.
DownloadGet(p) ==
    /\ proc[p].pc = "download_get"
    /\ LET f == proc[p]
           output_directory == Stem(f.file_name)
           staged == IF PathExists(fs, output_directory) THEN fs
                     ELSE MakeDirs(fs, output_directory)
       IN
       \/ \E i \in DOMAIN files :
             /\ files[i].name = f.file_name
             /\ fs' = staged
             /\ proc' = [proc EXCEPT ![p] =
                   [f EXCEPT !.pc = "download_fetch",
                             !.file_db_id = files[i].fileId,
                             !.output_directory = output_directory,
                             !.chunks_list = ChunksOf(posts, files[i].fileId, 1)]]
             /\ UNCHANGED <<calls, faults>>
       \/ \* no record: chunksIds is None and the for loop raises TypeError
          /\ \A i \in DOMAIN files : files[i].name # f.file_name
          /\ fs' = staged
          /\ Finish(p, [f EXCEPT !.err = "lookup", !.output_directory = output_directory],
                    "download_file", Raised)
          /\ UNCHANGED faults
       \/ \* requests.get raises
          /\ MayFault
          /\ faults' = faults + 1
          /\ fs' = fs
          /\ Finish(p, [f EXCEPT !.err = "lookup"], "download_file", Raised)
    /\ UNCHANGED <<nextId, files, posts>>

\* lines 229-237: fetch the next chunk and write it under its reported name
DownloadFetch(p) ==
    /\ proc[p].pc = "download_fetch"
    /\ proc[p].chunks_list # <<>>
    /\ LET f == proc[p]
           chunk_data == Head(f.chunks_list)
           target == PathJoin(f.output_directory, chunk_data.chunkName)
           rest == [f EXCEPT !.chunks_list = Tail(f.chunks_list)]
       IN
       \/ /\ CanWrite(fs, target)
          /\ fs' = WriteFile(fs, target, posts[chunk_data.chunkId].data)
          /\ proc' = [proc EXCEPT ![p] = rest]
          /\ UNCHANGED <<calls, faults>>
       \/ \* the staging directory cannot be written: open raises
          /\ ~CanWrite(fs, target)
          /\ fs' = fs
          /\ Finish(p, [f EXCEPT !.err = "write"], "download_file", Raised)
          /\ UNCHANGED faults
       \/ \* requests.get raises
          /\ MayFault
          /\ faults' = faults + 1
          /\ fs' = fs
          /\ Finish(p, [f EXCEPT !.err = "fetch"], "download_file", Raised)
       \/ \* the service answers with an error status: r.content is the error body
          /\ MayFault
          /\ CanWrite(fs, target)
          /\ faults' = faults + 1
          /\ fs' = WriteFile(fs, target, ErrorBody)
          /\ proc' = [proc EXCEPT ![p] = [rest EXCEPT !.err = "fetch_status"]]
          /\ UNCHANGED calls
    /\ UNCHANGED <<nextId, files, posts>>

\* line 239: every chunk is written; call merge_chunks(output_directory, file_name)
DownloadMerge(p) ==
    /\ proc[p].pc = "download_fetch"
    /\ proc[p].chunks_list = <<>>
    /\ proc' = [proc EXCEPT ![p] =
          [proc[p] EXCEPT !.pc = "merge_open",
                          !.chunks_directory = proc[p].output_directory]]
    /\ UNCHANGED <<fs, calls, faults, nextId, files, posts>>

\* line 239: return what merge_chunks returned
DownloadReturn(p) ==
    /\ proc[p].pc = "download_ret"
    /\ Finish(p, proc[p], "download_file", proc[p].ret)
    /\ UNCHANGED <<fs, faults, nextId, files, posts>>

\* ------------------------------------------------------------ transfer client
\* One caller making upload_file and download_file calls in sequence.

NameNoExt == <<"a">>
NameHidden == <<".", "a">>
NameB == <<"b", ".", "t">>
NameZ == <<"z">>
\* the local files the caller may upload (MissingPath does not exist)
Sources == {PathJoin(SrcDir, NameA), PathJoin(SrcDir, NameNoExt),
            PathJoin(SrcDir, NameHidden)}
\* length of every local source file: two chunks of UploadChunkSize
SourceLen == UploadChunkSize + 1

SourceTag(name) ==
    CASE name = NameA -> 1
      [] name = NameNoExt -> 2
      [] name = NameHidden -> 3

InitSources ==
    fs = (SrcDir :> Dir) @@
         [q \in Sources |-> File(Bytes(SourceTag(Basename(q)), SourceLen))]

\* a chunk some client uploaded earlier
Stored(id, name, n, data) ==
    [fileId |-> id, chunk |-> ChunkFilename(Str(id), name, n),
     name |-> Basename(ChunkFilename(Str(id), name, n)), data |-> data, ok |-> TRUE]

\* The service already holds two records named NameB (the same file uploaded
\* twice, with two chunks and later with one): repeated uploads make new records.
InitTransfer ==
    /\ InitSources
    /\ proc = [p \in {"m"} |-> Blank]
    /\ calls = [p \in {"m"} |-> <<>>]
    /\ faults = 0
    /\ nextId = 3
    /\ files = <<[fileId |-> 1, name |-> NameB], [fileId |-> 2, name |-> NameB]>>
    /\ posts = <<Stored(1, NameB, 1, <<65, 66>>), Stored(1, NameB, 2, <<67>>),
                 Stored(2, NameB, 1, <<68>>)>>

NextTransfer ==
    \/ \E p \in Procs, path \in Sources \cup {MissingPath} : CallUpload(p, path, MaxOps)
    \/ \E p \in Procs, name \in {NameA, NameNoExt, NameHidden, NameB, NameZ} :
          CallDownload(p, name, MaxOps)
    \/ \E p \in Procs : UploadStat(p)
    \/ \E p \in Procs : UploadAddFile(p)
    \/ \E p \in Procs : UploadCheckId(p)
    \/ \E p \in Procs : SplitOpen(p)
    \/ \E p \in Procs : SplitMkdir(p)
    \/ \E p \in Procs : SplitWrite(p)
    \/ \E p \in Procs : SplitReturn(p)
    \/ \E p \in Procs : UploadGlob(p)
    \/ \E p \in Procs : UploadPost(p)
    \/ \E p \in Procs : UploadDone(p)
    \/ \E p \in Procs : DownloadGet(p)
    \/ \E p \in Procs : DownloadFetch(p)
    \/ \E p \in Procs : DownloadMerge(p)
    \/ \E p \in Procs : MergeOpen(p)
    \/ \E p \in Procs : MergeAppend(p)
    \/ \E p \in Procs : MergeReturn(p)
    \/ \E p \in Procs : DownloadReturn(p)

SpecTransfer == InitTransfer /\ [][NextTransfer]_vars

\* ------------------------------------------------------------ concurrent uploads
\* Two callers, one upload_file each, their steps interleaved.

InitPar ==
    /\ InitSources
    /\ proc = [p \in {"u1", "u2"} |-> Blank]
    /\ calls = [p \in {"u1", "u2"} |-> <<>>]
    /\ faults = 0
    /\ ServiceInit

NextPar ==
    \/ \E p \in Procs, path \in Sources : CallUpload(p, path, 1)
    \/ \E p \in Procs : UploadStat(p)
    \/ \E p \in Procs : UploadAddFile(p)
    \/ \E p \in Procs : UploadCheckId(p)
    \/ \E p \in Procs : SplitOpen(p)
    \/ \E p \in Procs : SplitMkdir(p)
    \/ \E p \in Procs : SplitWrite(p)
    \/ \E p \in Procs : SplitReturn(p)
    \/ \E p \in Procs : UploadGlob(p)
    \/ \E p \in Procs : UploadPost(p)
    \/ \E p \in Procs : UploadDone(p)

SpecPar == InitPar /\ [][NextPar]_vars

\* ------------------------------------------------------------ transfer claims

LastCall(p) == calls[p][Len(calls[p])]

\* caller p has just returned from a call of op
JustReturned(p, op) ==
    /\ proc[p].pc = "idle"
    /\ Len(calls[p]) > 0
    /\ LastCall(p).op = op

\* C4 (upload short-circuit): when add_file's response carries no fileId,
\* upload_file's next step returns None, and that step creates no directory,
\* calls no split_file and sends no chunk.
C4_NoIdShortCircuit ==
    [][\A p \in Procs :
          (proc[p].pc = "upload_check" /\ proc[p].file_db_id = 0)
          => /\ proc'[p].pc = "idle"
             /\ proc'[p].ret = None
             /\ LastCall(p)'.op = "upload_file"
             /\ LastCall(p)'.directory = <<>>
             /\ fs' = fs
             /\ posts' = posts]_vars

\* an upload_file that was refused a fileId has returned None
C4_Witness ==
    /\ JustReturned("m", "upload_file")
    /\ LastCall("m").err = "no_id"
    /\ LastCall("m").ret = None
    /\ LastCall("m").input_file_path = SrcPath

\* C5 (split short-circuit): when split_file returned None, upload_file's next
\* step returns None and sends no chunk; when the source path does not exist,
\* upload_file raises before anything is registered or sent.
C5_SplitShortCircuit ==
    [][\A p \in Procs :
          /\ (proc[p].pc = "upload_glob" /\ proc[p].ret = None)
             => /\ proc'[p].pc = "idle"
                /\ proc'[p].ret = None
                /\ posts' = posts
          /\ (proc[p].pc = "upload_stat" /\ ~Exists(fs, proc[p].input_file_path))
             => /\ proc'[p].pc = "idle"
                /\ proc'[p].ret = Raised
                /\ posts' = posts
                /\ files' = files]_vars

\* split_file failed inside an upload that had a fileId; the upload returned None
C5_Witness ==
    /\ JustReturned("m", "upload_file")
    /\ LastCall("m").err = "split"
    /\ LastCall("m").file_db_id # 0
    /\ LastCall("m").ret = None

\* C6 (chunk-upload failure is total): when the upload of a chunk raises,
\* upload_file returns None at once: the failing request was issued at most
\* once, no request follows it, the requests already received stay received
\* and the local chunk files stay.
C6_ChunkFailureTotal ==
    [][\A p \in Procs :
          (proc[p].pc = "upload_post" /\ faults' > faults)
          => /\ proc'[p].pc = "idle"
             /\ proc'[p].ret = None
             /\ LastCall(p)'.op = "upload_file"
             /\ fs' = fs
             /\ \/ posts' = posts
                \/ posts' = Append(posts, [fileId |-> proc[p].file_db_id,
                                           chunk |-> Head(proc[p].chunks_list),
                                           name |-> Basename(Head(proc[p].chunks_list)),
                                           data |-> fs[Head(proc[p].chunks_list)].data,
                                           ok |-> FALSE])]_vars

\* the first of two chunk uploads raised: one failed request, the second chunk never sent
C6_Witness ==
    /\ JustReturned("m", "upload_file")
    /\ LastCall("m").err = "post"
    /\ LastCall("m").ret = None
    /\ Len(LastCall("m").chunks) = 2
    /\ Len(ChunksOf(posts, LastCall("m").file_db_id, 1)) = 0
    /\ \E i \in DOMAIN posts : posts[i].fileId = LastCall("m").file_db_id /\ ~posts[i].ok

\* the descriptor the service returns for fileId id lists exactly the chunks
\* <name>_1.bin .. <name>_k.bin, each once
ListsChunks(id, name, k) ==
    LET D == ChunksOf(posts, id, 1) IN
    /\ Len(D) = k
    /\ \A j \in 1..k : \E i \in DOMAIN D :
          D[i].chunkName = Basename(ChunkFilename(<<>>, name, j))

\* the bytes of the descriptor's chunk named <name>_<j>.bin
DescriptorChunk(id, name, j) ==
    LET D == ChunksOf(posts, id, 1)
        i == CHOOSE i \in DOMAIN D : D[i].chunkName = Basename(ChunkFilename(<<>>, name, j))
    IN  posts[D[i].chunkId].data

RECURSIVE DescriptorBytes(_, _, _)
DescriptorBytes(id, name, k) ==
    IF k = 0 THEN <<>>
    ELSE DescriptorBytes(id, name, k - 1) \o DescriptorChunk(id, name, k)

\* C7 (download reproduces the upload): after upload_file(path) returned the
\* FileRecord f and the service lists f's k = ceil(N/C) chunks under their
\* uploaded names, a download_file(name) that met no I/O error has put exactly
\* k files into the staging directory and returned `name`, a file holding the
\* bytes of the uploaded file.
C7_DownloadReproducesUpload ==
    \A p \in Procs :
        (/\ faults = 0
         /\ JustReturned(p, "download_file")
         /\ \E u \in 1..(Len(calls[p]) - 1) :
               /\ calls[p][u].op = "upload_file"
               /\ calls[p][u].ret = DictVal(LastCall(p).file_db_id)
               /\ ListsChunks(calls[p][u].file_db_id, LastCall(p).file_name,
                              Ceil(Len(fs[calls[p][u].input_file_path].data), UploadChunkSize)))
        => LET d == LastCall(p)
               u == CHOOSE u \in 1..(Len(calls[p]) - 1) :
                       /\ calls[p][u].op = "upload_file"
                       /\ calls[p][u].ret = DictVal(d.file_db_id)
               src == fs[calls[p][u].input_file_path].data
           IN  /\ d.ret = StrVal(d.file_name)
               /\ IsFile(fs, d.file_name)
               /\ fs[d.file_name].data = src
               /\ Cardinality(Listing(fs, d.directory)) = Ceil(Len(src), UploadChunkSize)

\* C8 (failures are distinguishable): download_file returns a string only when
\* the lookup, every chunk fetch and the merge succeeded, and that string is
\* the output file's path; a failure never comes back as a string.
C8_FailuresDistinguishable ==
    \A p \in Procs :
        (JustReturned(p, "download_file") /\ LastCall(p).ret.t = "str")
        => /\ LastCall(p).err = ""
           /\ LastCall(p).ret.v = LastCall(p).file_name

\* C10 (only the current descriptor counts): with no I/O error at all, a
\* download_file(name) that returned `name` and whose descriptor lists the chunks <name>_1.bin .. <name>_k.bin
\* produced the concatenation of exactly these k chunks.
C10_OnlyCurrentDescriptor ==
    \A p \in Procs :
        (/\ faults = 0
         /\ JustReturned(p, "download_file")
         /\ LastCall(p).ret = StrVal(LastCall(p).file_name)
         /\ ListsChunks(LastCall(p).file_db_id, LastCall(p).file_name,
                        Len(ChunksOf(posts, LastCall(p).file_db_id, 1))))
        => fs[LastCall(p).file_name].data =
              DescriptorBytes(LastCall(p).file_db_id, LastCall(p).file_name,
                              Len(ChunksOf(posts, LastCall(p).file_db_id, 1)))

\* the slice of `data` that chunk j of size c holds
Slice(data, c, j) == ReadBlock(data, (j - 1) * c, c)

\* C9 (per-upload namespacing): whatever the interleaving, an upload_file that
\* returned FileRecord f left under directory str(f) exactly the chunks of its
\* own source file, and the requests the service received with parent fileId f
\* are exactly one per such chunk file, carrying that chunk's bytes.
C9_PerUploadNamespacing ==
    \A p \in Procs :
        (JustReturned(p, "upload_file") /\ LastCall(p).ret.t = "dict")
        => LET c == LastCall(p)
               dir == Str(c.file_db_id)
               src == fs[c.input_file_path].data
               k == Ceil(Len(src), UploadChunkSize)
               own == {ChunkFilename(dir, c.file_name, j) : j \in 1..k}
           IN  /\ Listing(fs, dir) = own
               /\ \A j \in 1..k :
                     fs[ChunkFilename(dir, c.file_name, j)].data = Slice(src, UploadChunkSize, j)
               /\ \A q \in own :
                     Cardinality({i \in DOMAIN posts :
                                     posts[i].fileId = c.file_db_id /\ posts[i].chunk = q}) = 1
               /\ \A i \in DOMAIN posts :
                     posts[i].fileId = c.file_db_id
                        => posts[i].chunk \in own /\ posts[i].data = fs[posts[i].chunk].data

====
